---- MODULE Spec2Model ----
(***************************************************************************)
(* Round-robin load balancer (load_balancer.py): the backend registry       *)
(* SERVER_STATE with its health flags, the rotation cursor RR_INDEX, the    *)
(* lock STATE_LOCK, the selector get_next_server, the background            *)
(* health_checker and the per-connection proxy_handler threads.             *)
(***************************************************************************)
EXTENDS Integers, Sequences, FiniteSets, TLC

\* ---------------------------------------------------------------- bounds
\* Number of proxy_handler threads that may be in flight at the same time.
NumHandlers == 2
\* Largest number of chunks a backend sends before it closes its side.
MaxChunks == 1
\* Largest registry the selector is exercised on (SpecSel).
MaxServers == 3
\* Largest number of chunks of a response when one client is served alone
\* (SpecFirst).
MaxParts == 3

\* ------------------------------------------------------ program constants
\* len(SERVER_STATE) of the shipped configuration.
NumServers == 2
\* Port of "Server 1" is BasePort + 1, of "Server 2" BasePort + 2.
BasePort == 8080

Handlers == 1..NumHandlers

\* Holders of STATE_LOCK: a handler's number, Free, or the health thread.
Free == 0
HealthThread == NumHandlers + 1

\* The value used where Python has no value yet (no address, no exception).
None == <<>>

VARIABLES
    SERVER_STATE,   \* the registry: sequence of [host, port, healthy, name]
    RR_INDEX,       \* the rotation cursor, 0-based as in the code
    STATE_LOCK,     \* holder of the lock
    reachable,      \* environment: reachable[i] iff backend i accepts connects
    pc,             \* handler -> position in proxy_handler
    start_index,    \* handler -> get_next_server's local start_index
    iters,          \* handler -> iterations of the scan loop done in this call
    backend,        \* handler -> (backend_host, backend_port) or None
    backend_sock,   \* handler -> "none" | "open" | "connected" | "closed"
    connected_to,   \* handler -> address the backend socket connected to
    client_sock,    \* handler -> "none" | "open" | "closed"
    request_data,   \* handler -> Unread | the request read (<<>> if no bytes)
    backend_in,     \* handler -> requests written to the backend socket
    backend_parts,  \* handler -> parts received from the backend socket
    client_out,     \* handler -> sequence of byte strings written to the client
    error_message,  \* handler -> str(e) of the exception caught, or NoError
    escaped,        \* handler -> an exception left proxy_handler
    hc_pc,          \* health_checker: "sleep" | "sweep"
    hc_index,       \* health_checker: registry position of the for loop
    probe_sock,     \* health_checker: "none" | "open" | "closed"
    alerts,         \* alert lines printed by the latest probe
    calls           \* SpecSel: the calls of get_next_server made, oldest first

vars == <<SERVER_STATE, RR_INDEX, STATE_LOCK, reachable, pc, start_index, iters,
          backend, backend_sock, connected_to, client_sock, request_data,
          backend_in, backend_parts, client_out, error_message, escaped, hc_pc, hc_index,
          probe_sock, alerts, calls>>

selVars == <<pc, start_index, iters, backend, error_message>>
sockVars == <<backend_sock, connected_to, client_sock, request_data,
              backend_in, backend_parts, client_out, escaped>>
hcVars == <<hc_pc, hc_index, probe_sock, alerts>>

\* ---------------------------------------------------------- configuration
ServerName(i) == "Server " \o ToString(i)

\* One entry of SERVER_STATE as configured: healthy seeded True.
ServerEntry(i, h) ==
    [host |-> "127.0.0.1", port |-> BasePort + i, healthy |-> h, name |-> ServerName(i)]

Registry(n) == [i \in 1..n |-> ServerEntry(i, TRUE)]

Address(server) == <<server.host, server.port>>

num_servers == Len(SERVER_STATE)

\* Registry position (1-based) of the backend with the given address.
IndexOf(addr) == CHOOSE i \in 1..num_servers : Address(SERVER_STATE[i]) = addr

Healthy(i) == SERVER_STATE[i].healthy

\* ------------------------------------------------------------ 503 response
RESPONSE_BODY == "Service Unavailable. No healthy backend servers.\n"

CONTENT_LENGTH == ToString(Len(RESPONSE_BODY))

SERVICE_UNAVAILABLE_RESPONSE ==
    "HTTP/1.1 503 Service Unavailable\r\n"
    \o "Content-Type: text/plain\r\n"
    \o "Connection: close\r\n"
    \o "Content-Length: " \o CONTENT_LENGTH \o "\r\n"
    \o "\r\n"
    \o RESPONSE_BODY

\* ---------------------------------------------------------------- requests
\* A request is the sequence of its lines; recv() of a client that sent nothing
\* gives the empty sequence.
Unread == <<"(not read)">>

Requests == { <<"GET / HTTP/1.1", "Connection: keep-alive">> }

\* request_data.replace('Connection: keep-alive', 'Connection: close')
Rewrite(req) ==
    [k \in 1..Len(req) |->
        IF req[k] = "Connection: keep-alive" THEN "Connection: close" ELSE req[k]]

\* The k-th chunk of a backend's response.
Part(k) == "part " \o ToString(k)

\* str(e) of the exception get_next_server raises, of any socket error, and
\* the value while no exception was caught.
NoHealthyMessage == "No healthy servers available."
SocketErrorMessage == "socket error"
NoError == ""

\* ------------------------------------------------------------------- Init
HandlerInit ==
    /\ pc = [h \in Handlers |-> "idle"]
    /\ start_index = [h \in Handlers |-> 0]
    /\ iters = [h \in Handlers |-> 0]
    /\ backend = [h \in Handlers |-> None]
    /\ backend_sock = [h \in Handlers |-> "none"]
    /\ connected_to = [h \in Handlers |-> None]
    /\ client_sock = [h \in Handlers |-> "none"]
    /\ request_data = [h \in Handlers |-> Unread]
    /\ backend_in = [h \in Handlers |-> <<>>]
    /\ backend_parts = [h \in Handlers |-> <<>>]
    /\ client_out = [h \in Handlers |-> <<>>]
    /\ error_message = [h \in Handlers |-> NoError]
    /\ escaped = [h \in Handlers |-> FALSE]

HealthInit ==
    /\ hc_pc = "sleep"
    /\ hc_index = 0
    /\ probe_sock = "none"
    /\ alerts = <<>>

Init ==
    /\ SERVER_STATE = Registry(NumServers)
    /\ RR_INDEX = 0
    /\ STATE_LOCK = Free
    /\ reachable \in [1..NumServers -> BOOLEAN]
    /\ calls = <<>>
    /\ HandlerInit
    /\ HealthInit

\* ------------------------------------------------------------ the selector
\* A cursor that advances by two positions.
NextIndex_skip(i, n) == (i + 2) % n

\* A cursor that is never wrapped.
NextIndex_nomod(i, n) == i + 1

\* A cursor that stays where it is.
NextIndex_stay(i, n) == i

\* RR_INDEX = (RR_INDEX + 1) % num_servers
NextIndex(i, n) == (i + 1) % n

\* A health test that accepts every entry.
IsHealthy_any(server) == TRUE

\* A health test with the condition inverted.
IsHealthy_inverted(server) == ~server.healthy

\* "if server['healthy']:"
IsHealthy(server) == server.healthy

\* A wrap check against the head of the registry instead of start_index.
Wrapped_zero(index, start) == index = 0

\* A scan with no wrap check.
Wrapped_never(index, start) == FALSE

\* "if RR_INDEX == start_index:" the scan is back where it started.
Wrapped(index, start) == index = start

\* The registry entry the scan reads: server = SERVER_STATE[RR_INDEX].
ScanServer == SERVER_STATE[RR_INDEX + 1]

\* The listener accepts a connection and starts proxy_handler on it.
Accept(h) ==
    /\ pc[h] \in {"idle", "done"}
    /\ pc' = [pc EXCEPT ![h] = "select"]
    /\ client_sock' = [client_sock EXCEPT ![h] = "open"]
    /\ backend' = [backend EXCEPT ![h] = None]
    /\ backend_sock' = [backend_sock EXCEPT ![h] = "none"]
    /\ connected_to' = [connected_to EXCEPT ![h] = None]
    /\ request_data' = [request_data EXCEPT ![h] = Unread]
    /\ backend_in' = [backend_in EXCEPT ![h] = <<>>]
    /\ backend_parts' = [backend_parts EXCEPT ![h] = <<>>]
    /\ client_out' = [client_out EXCEPT ![h] = <<>>]
    /\ error_message' = [error_message EXCEPT ![h] = NoError]
    /\ escaped' = [escaped EXCEPT ![h] = FALSE]
    /\ UNCHANGED <<SERVER_STATE, RR_INDEX, STATE_LOCK, reachable, start_index,
                   iters, calls>>
    /\ UNCHANGED hcVars

\* A scan that starts without waiting for the lock to be free.
Acquire_nowait(h) ==
    /\ pc[h] = "select"
    /\ STATE_LOCK' = h
    /\ start_index' = [start_index EXCEPT ![h] = RR_INDEX]
    /\ iters' = [iters EXCEPT ![h] = 0]
    /\ pc' = [pc EXCEPT ![h] = "scan"]
    /\ UNCHANGED <<SERVER_STATE, RR_INDEX, reachable, backend, error_message, calls>>
    /\ UNCHANGED sockVars
    /\ UNCHANGED hcVars

\* get_next_server: "with STATE_LOCK:", start_index = RR_INDEX.
Acquire(h) ==
    /\ pc[h] = "select"
    /\ STATE_LOCK = Free
    /\ STATE_LOCK' = h
    /\ start_index' = [start_index EXCEPT ![h] = RR_INDEX]
    /\ iters' = [iters EXCEPT ![h] = 0]
    /\ pc' = [pc EXCEPT ![h] = "scan"]
    /\ UNCHANGED <<SERVER_STATE, RR_INDEX, reachable, backend, error_message, calls>>
    /\ UNCHANGED sockVars
    /\ UNCHANGED hcVars

\* One iteration of get_next_server's "while True": read the entry at the
\* cursor, advance the cursor, return the entry's address if it is healthy,
\* raise if the cursor is back at start_index, else go round again.  Leaving
\* the with block, by return or by raise, releases the lock.
ScanStep(h) ==
    /\ pc[h] = "scan"
    /\ STATE_LOCK = h
    /\ LET server == ScanServer
           next == NextIndex(RR_INDEX, num_servers)
       IN /\ RR_INDEX' = next
          /\ IF IsHealthy(server)
             THEN /\ backend' = [backend EXCEPT ![h] = Address(server)]
                  /\ pc' = [pc EXCEPT ![h] = "connect"]
                  /\ STATE_LOCK' = Free
                  /\ iters' = [iters EXCEPT ![h] = 0]
                  /\ start_index' = [start_index EXCEPT ![h] = 0]
                  /\ UNCHANGED error_message
             ELSE IF Wrapped(next, start_index[h])
             THEN /\ error_message' = [error_message EXCEPT ![h] = NoHealthyMessage]
                  /\ pc' = [pc EXCEPT ![h] = "except"]
                  /\ STATE_LOCK' = Free
                  /\ iters' = [iters EXCEPT ![h] = 0]
                  /\ start_index' = [start_index EXCEPT ![h] = 0]
                  /\ UNCHANGED backend
             ELSE /\ iters' = [iters EXCEPT ![h] = iters[h] + 1]
                  /\ UNCHANGED <<pc, STATE_LOCK, start_index, backend,
                                 error_message>>
    /\ UNCHANGED <<SERVER_STATE, reachable, calls>>
    /\ UNCHANGED sockVars
    /\ UNCHANGED hcVars

\* ------------------------------------------------------------- the handler
\* A finally block that closes the backend socket only if it is connected.
FinallyBackendSock_connected(s) == IF s = "connected" THEN "closed" ELSE s

\* The finally block's "if 'backend_sock' in locals() and backend_sock:
\* backend_sock.close()": a socket that was created is closed, one that was
\* never created is left alone.
FinallyBackendSock(s) == IF s = "none" THEN "none" ELSE "closed"

\* The finally block: close the client socket, then the backend socket.
Finally(h) ==
    /\ client_sock' = [client_sock EXCEPT ![h] = "closed"]
    /\ backend_sock' = [backend_sock EXCEPT ![h] = FinallyBackendSock(backend_sock[h])]
    /\ pc' = [pc EXCEPT ![h] = "done"]

\* An exception raised in the try body is caught by "except Exception as e".
Raise(h, msg) ==
    /\ error_message' = [error_message EXCEPT ![h] = msg]
    /\ pc' = [pc EXCEPT ![h] = "except"]

\* backend_sock = socket.socket(...); backend_sock.connect(...) succeeds.
ConnectOk(h) ==
    /\ pc[h] = "connect"
    /\ reachable[IndexOf(backend[h])]
    /\ backend_sock' = [backend_sock EXCEPT ![h] = "connected"]
    /\ connected_to' = [connected_to EXCEPT ![h] = backend[h]]
    /\ pc' = [pc EXCEPT ![h] = "recv"]
    /\ UNCHANGED <<SERVER_STATE, RR_INDEX, STATE_LOCK, reachable, start_index,
                   iters, backend, error_message, client_sock, request_data,
                   backend_in, backend_parts, client_out, escaped, calls>>
    /\ UNCHANGED hcVars

\* A handler that marks the backend it could not connect to as unhealthy.
ConnectFail_markDown(h) ==
    /\ pc[h] = "connect"
    /\ ~reachable[IndexOf(backend[h])]
    /\ backend_sock' = [backend_sock EXCEPT ![h] = "open"]
    /\ SERVER_STATE' = [SERVER_STATE EXCEPT ![IndexOf(backend[h])].healthy = FALSE]
    /\ Raise(h, SocketErrorMessage)
    /\ UNCHANGED <<RR_INDEX, STATE_LOCK, reachable, start_index,
                   iters, backend, connected_to, client_sock, request_data,
                   backend_in, backend_parts, client_out, escaped, calls>>
    /\ UNCHANGED hcVars

\* backend_sock.connect(...) raises (refused, reset, timed out).
ConnectFail(h) ==
    /\ pc[h] = "connect"
    /\ ~reachable[IndexOf(backend[h])]
    /\ backend_sock' = [backend_sock EXCEPT ![h] = "open"]
    /\ Raise(h, SocketErrorMessage)
    /\ UNCHANGED <<SERVER_STATE, RR_INDEX, STATE_LOCK, reachable, start_index,
                   iters, backend, connected_to, client_sock, request_data,
                   backend_in, backend_parts, client_out, escaped, calls>>
    /\ UNCHANGED hcVars

\* request_data = client_sock.recv(4096).decode('utf-8'), some bytes read.
RecvRequest(h) ==
    /\ pc[h] = "recv"
    /\ \E req \in Requests : request_data' = [request_data EXCEPT ![h] = req]
    /\ pc' = [pc EXCEPT ![h] = "forward"]
    /\ UNCHANGED <<SERVER_STATE, RR_INDEX, STATE_LOCK, reachable, start_index,
                   iters, backend, error_message, backend_sock, connected_to,
                   client_sock, backend_in, backend_parts, client_out, escaped, calls>>
    /\ UNCHANGED hcVars

\* The client sent nothing: "if not request_data: return", then finally.
RecvEmpty(h) ==
    /\ pc[h] = "recv"
    /\ request_data' = [request_data EXCEPT ![h] = <<>>]
    /\ Finally(h)
    /\ UNCHANGED <<SERVER_STATE, RR_INDEX, STATE_LOCK, reachable, start_index,
                   iters, backend, error_message, connected_to, backend_in, backend_parts,
                   client_out, escaped, calls>>
    /\ UNCHANGED hcVars

\* request_data.replace(...); backend_sock.sendall(request_data.encode(...)).
Forward(h) ==
    /\ pc[h] = "forward"
    /\ backend_in' = [backend_in EXCEPT ![h] = Append(@, Rewrite(request_data[h]))]
    /\ pc' = [pc EXCEPT ![h] = "relay"]
    /\ UNCHANGED <<SERVER_STATE, RR_INDEX, STATE_LOCK, reachable, start_index,
                   iters, backend, error_message, backend_sock, connected_to,
                   client_sock, request_data, backend_parts, client_out, escaped, calls>>
    /\ UNCHANGED hcVars

\* client_sock.sendall(part): the part goes to the client as received.
RelayWrite_twice(out, part) == Append(Append(out, part), part)

RelayWrite(out, part) == Append(out, part)

\* part = backend_sock.recv(4096), not empty; client_sock.sendall(part).
RelayPartUpTo(h, n) ==
    /\ pc[h] = "relay"
    /\ Len(backend_parts[h]) < n
    /\ LET part == Part(Len(backend_parts[h]) + 1) IN
        /\ backend_parts' = [backend_parts EXCEPT ![h] = Append(@, part)]
        /\ client_out' = [client_out EXCEPT ![h] = RelayWrite(@, part)]
    /\ UNCHANGED <<SERVER_STATE, RR_INDEX, STATE_LOCK, reachable, calls>>
    /\ UNCHANGED selVars
    /\ UNCHANGED <<backend_sock, connected_to, client_sock, request_data,
                   backend_in, escaped>>
    /\ UNCHANGED hcVars

RelayPart(h) == RelayPartUpTo(h, MaxChunks)

\* The backend closed its side: "if not part: break", then finally.
RelayEnd(h) ==
    /\ pc[h] = "relay"
    /\ Finally(h)
    /\ UNCHANGED <<SERVER_STATE, RR_INDEX, STATE_LOCK, reachable, start_index,
                   iters, backend, error_message, connected_to, request_data,
                   backend_in, backend_parts, client_out, escaped, calls>>
    /\ UNCHANGED hcVars

\* A socket operation of the try body after the connect raises: the client's
\* recv (or its decode), the sendall to the backend, the backend's recv or
\* the sendall to the client.
IOError(h) ==
    /\ pc[h] \in {"recv", "forward", "relay"}
    /\ Raise(h, SocketErrorMessage)
    /\ UNCHANGED <<SERVER_STATE, RR_INDEX, STATE_LOCK, reachable, start_index,
                   iters, backend, calls>>
    /\ UNCHANGED sockVars
    /\ UNCHANGED hcVars

\* An except block that answers 503 to the "no healthy servers" exception
\* alone and passes the text of any other exception on.
ExceptResponse_other(msg) ==
    IF msg = NoHealthyMessage THEN SERVICE_UNAVAILABLE_RESPONSE ELSE msg

\* What the except block writes to the client for an exception message.
ExceptResponse(msg) ==
    IF msg = NoHealthyMessage
    THEN SERVICE_UNAVAILABLE_RESPONSE
    ELSE SERVICE_UNAVAILABLE_RESPONSE

\* The except block: client_sock.sendall(SERVICE_UNAVAILABLE_RESPONSE) in
\* either branch, then finally.
Send503(h) ==
    /\ pc[h] = "except"
    /\ client_out' = [client_out EXCEPT ![h] = Append(@, ExceptResponse(error_message[h]))]
    /\ Finally(h)
    /\ UNCHANGED <<SERVER_STATE, RR_INDEX, STATE_LOCK, reachable, start_index,
                   iters, backend, error_message, connected_to, request_data,
                   backend_in, backend_parts, escaped, calls>>
    /\ UNCHANGED hcVars

\* The sendall of the except block raises: finally runs and the exception
\* leaves proxy_handler.
Send503Error(h) ==
    /\ pc[h] = "except"
    /\ escaped' = [escaped EXCEPT ![h] = TRUE]
    /\ Finally(h)
    /\ UNCHANGED <<SERVER_STATE, RR_INDEX, STATE_LOCK, reachable, start_index,
                   iters, backend, error_message, connected_to, request_data,
                   backend_in, backend_parts, client_out, calls>>
    /\ UNCHANGED hcVars

\* ------------------------------------------------------ the health checker
\* After time.sleep(5): "with STATE_LOCK:", and the for loop starts.
HealthAcquire ==
    /\ hc_pc = "sleep"
    /\ STATE_LOCK = Free
    /\ STATE_LOCK' = HealthThread
    /\ hc_pc' = "sweep"
    /\ hc_index' = 1
    /\ UNCHANGED <<SERVER_STATE, RR_INDEX, reachable, probe_sock, alerts, calls>>
    /\ UNCHANGED selVars
    /\ UNCHANGED sockVars

\* The line printed on a transition.
AlertLine(server, is_healthy) ==
    [name |-> server.name, host |-> server.host, port |-> server.port,
     status |-> IF is_healthy THEN "UP" ELSE "DOWN"]

\* A prober that stores and reports every probe's result.
HealthChanged_always(server, is_healthy) == TRUE

\* A prober that never stores a probe's result.
HealthChanged_never(server, is_healthy) == FALSE

\* "if server['healthy'] != is_healthy": does the probe's result get stored?
HealthChanged(server, is_healthy) == server.healthy # is_healthy

\* One iteration of the for loop: probe the backend, store the result and
\* print the alert if it differs; after the last entry the with block ends.
Probe ==
    /\ hc_pc = "sweep"
    /\ STATE_LOCK = HealthThread
    /\ LET server == SERVER_STATE[hc_index]
           is_healthy == reachable[hc_index]
       IN /\ probe_sock' = IF is_healthy THEN "closed" ELSE "open"
          /\ IF HealthChanged(server, is_healthy)
             THEN /\ SERVER_STATE' = [SERVER_STATE EXCEPT ![hc_index].healthy = is_healthy]
                  /\ alerts' = <<AlertLine(server, is_healthy)>>
             ELSE /\ alerts' = <<>>
                  /\ UNCHANGED SERVER_STATE
    /\ IF hc_index < num_servers
       THEN /\ hc_index' = hc_index + 1
            /\ UNCHANGED <<hc_pc, STATE_LOCK>>
       ELSE /\ hc_index' = 0
            /\ hc_pc' = "sleep"
            /\ STATE_LOCK' = Free
    /\ UNCHANGED <<RR_INDEX, reachable, calls>>
    /\ UNCHANGED selVars
    /\ UNCHANGED sockVars

\* ---------------------------------------------------------- the environment
\* A backend starts or stops accepting connections.
SetReachable(i) ==
    /\ reachable' = [reachable EXCEPT ![i] = ~@]
    /\ UNCHANGED <<SERVER_STATE, RR_INDEX, STATE_LOCK, calls>>
    /\ UNCHANGED selVars
    /\ UNCHANGED sockVars
    /\ UNCHANGED hcVars

\* ---------------------------------------------------------- specifications
HandlerStep(h) ==
    \/ Accept(h)
    \/ Acquire(h)
    \/ ScanStep(h)
    \/ ConnectOk(h)
    \/ ConnectFail(h)
    \/ RecvRequest(h)
    \/ RecvEmpty(h)
    \/ Forward(h)
    \/ RelayPart(h)
    \/ RelayEnd(h)
    \/ IOError(h)
    \/ Send503(h)
    \/ Send503Error(h)

\* The program with backends that come and go.
Next ==
    \/ \E h \in Handlers : HandlerStep(h)
    \/ HealthAcquire
    \/ Probe
    \/ \E i \in 1..num_servers : SetReachable(i)

Spec == Init /\ [][Next]_vars

\* The program with the reachability of every backend fixed from the start.
NextStatic ==
    \/ \E h \in Handlers : HandlerStep(h)
    \/ HealthAcquire
    \/ Probe

SpecStatic == Init /\ [][NextStatic]_vars

\* The selector alone, on any registry of 1..MaxServers entries, any health
\* assignment and any cursor: callers call get_next_server again and again.
RegistryWith(n, hl) == [i \in 1..n |-> ServerEntry(i, hl[i])]

InitSel ==
    /\ \E n \in 1..MaxServers :
          /\ \E hl \in [1..n -> BOOLEAN] : SERVER_STATE = RegistryWith(n, hl)
          /\ RR_INDEX \in 0..(n - 1)
          /\ reachable = [i \in 1..n |-> TRUE]
    /\ STATE_LOCK = Free
    /\ calls = <<>>
    /\ HandlerInit
    /\ HealthInit

\* What a call of get_next_server gave: an address, or Unavailable when it
\* raised; Pending while the call runs.
Pending == <<"pending">>
Unavailable == <<"Unavailable">>

\* A caller calls get_next_server when no other call is running; a registry
\* of n entries is called n + 1 times.
Call(h) ==
    /\ \A g \in Handlers : pc[g] = "idle"
    /\ Len(calls) < num_servers + 1
    /\ pc' = [pc EXCEPT ![h] = "select"]
    /\ calls' = Append(calls, [cursor |-> RR_INDEX, result |-> Pending])
    /\ UNCHANGED <<SERVER_STATE, RR_INDEX, STATE_LOCK, reachable, start_index,
                   iters, backend, error_message>>
    /\ UNCHANGED sockVars
    /\ UNCHANGED hcVars

\* The call is over: the caller notes what it got.
Return(h) ==
    /\ pc[h] \in {"connect", "except"}
    /\ calls' = [calls EXCEPT ![Len(calls)].result =
                    IF pc[h] = "connect" THEN backend[h] ELSE Unavailable]
    /\ pc' = [pc EXCEPT ![h] = "idle"]
    /\ backend' = [backend EXCEPT ![h] = None]
    /\ error_message' = [error_message EXCEPT ![h] = NoError]
    /\ UNCHANGED <<SERVER_STATE, RR_INDEX, STATE_LOCK, reachable, start_index, iters>>
    /\ UNCHANGED sockVars
    /\ UNCHANGED hcVars

NextSel == \E h \in Handlers : Call(h) \/ Acquire(h) \/ ScanStep(h) \/ Return(h)

SpecSel == InitSel /\ [][NextSel]_vars

\* The threads seen from the shared state alone: the registry, the cursor and
\* the lock are touched by get_next_server and by health_checker only, so each
\* handler thread is reduced to its call of get_next_server, any number of
\* them running at once next to the prober and the backends coming and going.
Enter(h) ==
    /\ pc[h] = "idle"
    /\ pc' = [pc EXCEPT ![h] = "select"]
    /\ UNCHANGED <<SERVER_STATE, RR_INDEX, STATE_LOCK, reachable, start_index,
                   iters, backend, error_message, calls>>
    /\ UNCHANGED sockVars
    /\ UNCHANGED hcVars

\* The call returned an address or raised; the thread goes on without
\* touching the shared state again.
Leave(h) ==
    /\ pc[h] \in {"connect", "except"}
    /\ pc' = [pc EXCEPT ![h] = "idle"]
    /\ backend' = [backend EXCEPT ![h] = None]
    /\ error_message' = [error_message EXCEPT ![h] = NoError]
    /\ UNCHANGED <<SERVER_STATE, RR_INDEX, STATE_LOCK, reachable, start_index,
                   iters, calls>>
    /\ UNCHANGED sockVars
    /\ UNCHANGED hcVars

NextShared ==
    \/ \E h \in Handlers : Enter(h) \/ Acquire(h) \/ ScanStep(h) \/ Leave(h)
    \/ HealthAcquire
    \/ Probe
    \/ \E i \in 1..num_servers : SetReachable(i)

SpecShared == Init /\ [][NextShared]_vars

\* The same threads under fair scheduling: the health thread wakes from its
\* sleep and gets the lock if the lock is free again and again, a sweep that
\* has started goes on, and a thread inside get_next_server's with block runs
\* on to its exit. Nothing is assumed of the handlers' arrivals or of the
\* backends.
Fairness ==
    /\ SF_vars(HealthAcquire)
    /\ WF_vars(Probe)
    /\ \A h \in Handlers : WF_vars(ScanStep(h))

SpecFair == Init /\ [][NextShared]_vars /\ Fairness

\* One client at a time against backends that are all up: the connections of
\* thread 1 one after the other, each response of up to MaxParts parts, with
\* the prober sweeping in between.
InitFirst ==
    /\ Init
    /\ reachable = [i \in 1..NumServers |-> TRUE]

RelayParts(h) == RelayPartUpTo(h, MaxParts)

NextFirst ==
    \/ Accept(1)
    \/ Acquire(1)
    \/ ScanStep(1)
    \/ ConnectOk(1)
    \/ RecvRequest(1)
    \/ RecvEmpty(1)
    \/ Forward(1)
    \/ RelayParts(1)
    \/ RelayEnd(1)
    \/ IOError(1)
    \/ Send503(1)
    \/ Send503Error(1)
    \/ HealthAcquire
    \/ Probe

SpecFirst == InitFirst /\ [][NextFirst]_vars

\* ==================================================================== claims
N == num_servers
AddressOf(i) == Address(SERVER_STATE[i])
HealthySet == {i \in 1..N : Healthy(i)}
AllHealthy == HealthySet = 1..N
Completed(k) == calls[k].result # Pending
Wrote503(h) == \E k \in 1..Len(client_out[h]) : client_out[h][k] = SERVICE_UNAVAILABLE_RESPONSE

\* C1: with all N backends healthy, the k-th of consecutive calls of
\* get_next_server returns the address of the registry entry k - 1 places
\* after the cursor the first call started at (registry order from the cursor),
\* any N consecutive calls return N different addresses, and the (N + 1)-th
\* call returns what the first returned.
C1_RoundRobinCycle ==
    AllHealthy =>
        \A k \in 1..Len(calls) :
            Completed(k) =>
                /\ calls[k].result = AddressOf(((calls[1].cursor + k - 1) % N) + 1)
                /\ \A j \in 1..(k - 1) : k - j < N => calls[j].result # calls[k].result
                /\ k > N => calls[k].result = calls[k - N].result

\* N + 1 calls on a registry of at least two healthy backends, the first one
\* starting at a cursor that is not 0.
C1_Witness ==
    /\ AllHealthy
    /\ N >= 2
    /\ Len(calls) = N + 1
    /\ Completed(N + 1)
    /\ calls[1].cursor # 0

\* C2: when exactly one backend is healthy, every call of get_next_server
\* returns that backend's address, whatever the cursor, and none raises the
\* "no healthy servers" exception.
C2_SingleHealthy ==
    Cardinality(HealthySet) = 1 =>
        /\ \A k \in 1..Len(calls) :
              Completed(k) => \E i \in HealthySet : calls[k].result = AddressOf(i)
        /\ \A h \in Handlers : error_message[h] # NoHealthyMessage

\* Two calls answered on a registry of three with one healthy backend, the
\* first call starting right after the healthy entry.
C2_Witness ==
    /\ Cardinality(HealthySet) = 1
    /\ N >= 3
    /\ Len(calls) >= 2
    /\ Completed(2)
    /\ \E i \in HealthySet : calls[1].cursor = i % N

\* C3: a call of get_next_server that is still scanning has done fewer than N
\* iterations, so every call ends within N; the iteration that raises is the
\* N-th and leaves the cursor where the call found it; and with no healthy
\* backend the N-th iteration does raise.
C3_ScanBounded ==
    [][\A h \in Handlers :
          pc[h] = "scan" =>
              /\ iters[h] < N
              /\ pc'[h] = "except" =>
                    /\ iters[h] + 1 = N
                    /\ RR_INDEX' = start_index[h]
                    /\ error_message'[h] = NoHealthyMessage
              /\ (HealthySet = {} /\ iters[h] + 1 = N
                    /\ (pc'[h] # "scan" \/ iters'[h] # iters[h]))
                    => pc'[h] = "except"]_vars

\* A call on a registry of three has raised although it started at a cursor
\* that is not 0.
C3_Witness ==
    /\ N >= 3
    /\ HealthySet = {}
    /\ \E h \in Handlers : pc[h] = "except" /\ error_message[h] = NoHealthyMessage
    /\ Len(calls) >= 1
    /\ calls[Len(calls)].cursor # 0
    /\ RR_INDEX = calls[Len(calls)].cursor

\* C4: the iteration of get_next_server that returns an address returns the
\* address of a registry entry whose healthy flag is true at that moment,
\* whatever the handlers, the prober and the backends did before.
C4_NeverReturnsUnhealthy ==
    [][\A h \in Handlers :
          (pc[h] = "scan" /\ pc'[h] = "connect") =>
              \E i \in 1..N :
                  /\ backend'[h] = AddressOf(i)
                  /\ Healthy(i)
                  /\ SERVER_STATE'[i].healthy]_vars

\* A selection has skipped backend #1, marked DOWN by a sweep while it was
\* unreachable, and a handler is about to connect to backend #2.
C4_Witness ==
    /\ ~Healthy(1)
    /\ Healthy(2)
    /\ RR_INDEX = 0
    /\ \E h \in Handlers : pc[h] = "connect" /\ backend[h] = AddressOf(2)

\* C5: a handler whose first read of the client returned no bytes has selected
\* no backend and has created no backend socket.
C5_EmptyReadNoBackendContact ==
    \A h \in Handlers :
        request_data[h] = <<>> =>
            /\ backend[h] = None
            /\ backend_sock[h] = "none"
            /\ connected_to[h] = None

\* C6: the 503 response is written only to a client whose handler never
\* connected to a backend.
C6_503OnlyWhenNotConnected ==
    \A h \in Handlers : Wrote503(h) => connected_to[h] = None

\* C7: when proxy_handler has returned, the client socket is closed, and the
\* backend socket is closed if the handler created one (it created one exactly
\* when the selection gave it an address) and absent otherwise; an exception
\* leaves the handler only when the write of the 503 failed.
C7_SocketsClosedOnReturn ==
    \A h \in Handlers :
        pc[h] = "done" =>
            /\ client_sock[h] = "closed"
            /\ backend[h] # None => backend_sock[h] = "closed"
            /\ backend[h] = None => backend_sock[h] = "none"
            /\ escaped[h] => (error_message[h] # NoError /\ ~Wrote503(h))

\* One handler returned after a failed selection, with no backend socket
\* ever created, and another after a failed connect and a failed 503 write.
C7_Witness ==
    \E h, g \in Handlers :
        /\ pc[h] = "done" /\ pc[g] = "done"
        /\ error_message[h] = NoHealthyMessage
        /\ backend_sock[h] = "none"
        /\ backend[g] # None
        /\ connected_to[g] = None
        /\ escaped[g]

The503Bytes ==
    "HTTP/1.1 503 Service Unavailable\r\nContent-Type: text/plain\r\nConnection: close\r\nContent-Length: 49\r\n\r\nService Unavailable. No healthy backend servers.\n"

\* C8: with every backend unreachable, a handler that has returned has closed
\* the client socket and has written to the client the literal 503 response
\* and nothing else (nothing at all if that write itself failed), whether the
\* selection raised or the connect failed.
C8_AllDownGets503 ==
    (\A i \in 1..N : ~reachable[i]) =>
        \A h \in Handlers :
            pc[h] = "done" =>
                /\ client_sock[h] = "closed"
                /\ client_out[h] = IF escaped[h] THEN <<>> ELSE <<The503Bytes>>

\* One handler got the 503 after the selection raised and another after the
\* connect to a backend still flagged healthy failed.
C8_Witness ==
    /\ \A i \in 1..N : ~reachable[i]
    /\ \E h, g \in Handlers :
          /\ pc[h] = "done" /\ pc[g] = "done"
          /\ error_message[h] = NoHealthyMessage
          /\ client_out[h] = <<The503Bytes>>
          /\ error_message[g] = SocketErrorMessage
          /\ client_out[g] = <<The503Bytes>>

Backend1Down == ~reachable[1] /\ reachable[2]

\* C9 as claimed: with backend #1 unreachable and backend #2 reachable from
\* the start, no connection is ever routed to backend #1.
C9_AlwaysRoutedToSecond ==
    Backend1Down => \A h \in Handlers : backend[h] \in {None, AddressOf(2)}

\* C9 amended: with backend #1 unreachable and backend #2 reachable, a
\* selection made while backend #1 is flagged unhealthy and backend #2 healthy
\* returns backend #2, and a handler only connects to the backend selected.
C9_RoutedToSecondOnceMarkedDown ==
    [][\A h \in Handlers :
          /\ (Backend1Down /\ ~Healthy(1) /\ Healthy(2)
                /\ pc[h] = "scan" /\ pc'[h] # "scan")
                => (pc'[h] = "connect" /\ backend'[h] = AddressOf(2))
          /\ connected_to'[h] \in {None, backend'[h]}]_vars

\* Backend #1 is marked DOWN, and two connections have been connected to
\* backend #2, the first of them already closed; the cursor is back at the
\* dead entry.
C9_Witness ==
    /\ Backend1Down
    /\ ~Healthy(1) /\ Healthy(2)
    /\ RR_INDEX = 0
    /\ hc_pc = "sleep"
    /\ pc[1] = "done" /\ connected_to[1] = AddressOf(2)
    /\ pc[2] = "recv" /\ connected_to[2] = AddressOf(2)

ProbeStep == hc_pc = "sweep" /\ hc_index' # hc_index

\* C10: a probe prints one alert, naming the backend and its new state, when
\* it changes the backend's healthy flag and prints nothing when it does not;
\* no other step prints an alert or changes a healthy flag.
C10_AlertIffTransition ==
    [][/\ ProbeStep =>
            LET was == SERVER_STATE[hc_index]
                now == SERVER_STATE'[hc_index]
            IN /\ \A i \in 1..N : i # hc_index => SERVER_STATE'[i] = SERVER_STATE[i]
               /\ now.healthy = reachable[hc_index]
               /\ alerts' = IF now.healthy # was.healthy
                            THEN <<[name |-> was.name, host |-> was.host, port |-> was.port,
                                    status |-> IF now.healthy THEN "UP" ELSE "DOWN"]>>
                            ELSE <<>>
       /\ ~ProbeStep => (alerts' = alerts /\ SERVER_STATE' = SERVER_STATE)]_vars

\* The latest probe printed that a backend is UP again.
C10_Witness ==
    /\ alerts # <<>>
    /\ alerts[1].status = "UP"
    /\ alerts[1].name = "Server 1"
    /\ Healthy(1)

\* C11: a handler that has returned after get_next_server raised "no healthy
\* servers" has created no backend socket and connected to no backend, has
\* written the 503 response and nothing else to the client, and no exception
\* has left it.
C11_UnavailableAnswered503 ==
    \A h \in Handlers :
        (pc[h] = "done" /\ error_message[h] = NoHealthyMessage) =>
            /\ backend[h] = None
            /\ backend_sock[h] = "none"
            /\ connected_to[h] = None
            /\ client_sock[h] = "closed"
            /\ client_out[h] = <<SERVICE_UNAVAILABLE_RESPONSE>>
            /\ ~escaped[h]

\* C12: no exception leaves a handler that had connected to a backend, in
\* particular not when its client went away before sending or during the
\* relay.
C12_NoExceptionEscapes ==
    \A h \in Handlers :
        (pc[h] = "done" /\ connected_to[h] # None) => ~escaped[h]

\* C13: with both backends reachable and healthy, a connection whose
\* selection starts at cursor 0 (as the first one does) is given backend #1
\* and connects to it; when the backend closes, the backend has been sent the
\* client's request (with keep-alive rewritten to close) once, the client has
\* been written exactly the parts received from the backend, in their order,
\* and both sockets are closed.
C13_FirstConnectionRelayed ==
    [][\A h \in Handlers :
          /\ (pc[h] = "scan" /\ start_index[h] = 0 /\ AllHealthy /\ pc'[h] # "scan") =>
                /\ pc'[h] = "connect"
                /\ backend'[h] = AddressOf(1)
          /\ (pc[h] = "connect" /\ pc'[h] = "recv") =>
                /\ backend_sock'[h] = "connected"
                /\ connected_to'[h] = backend[h]
          /\ (pc[h] = "relay" /\ pc'[h] = "relay") =>
                /\ client_out'[h] = backend_parts'[h]
                /\ \A k \in 1..Len(client_out'[h]) : client_out'[h][k] = Part(k)
          /\ (pc[h] = "relay" /\ pc'[h] = "done") =>
                /\ connected_to'[h] = backend[h]
                /\ backend_in'[h] = <<Rewrite(request_data[h])>>
                /\ client_out'[h] = backend_parts[h]
                /\ client_sock'[h] = "closed"
                /\ backend_sock'[h] = "closed"
                /\ ~escaped'[h]]_vars

C13_Witness ==
    /\ pc[1] = "done"
    /\ error_message[1] = NoError
    /\ RR_INDEX = 1
    /\ connected_to[1] = AddressOf(1)
    /\ backend_in[1] = <<Rewrite(request_data[1])>>
    /\ client_out[1] = <<Part(1), Part(2)>>
    /\ client_sock[1] = "closed"
    /\ backend_sock[1] = "closed"

\* C14: a step changes the registry only if it is a probe of the health
\* sweep, which changes nothing but healthy flags; no step of a handler
\* (selection, connect, failed connect, relay, 503) changes a healthy flag,
\* and host, port and name of every entry stay as configured.
C14_OnlyProberWritesHealth ==
    [][/\ Len(SERVER_STATE') = Len(SERVER_STATE)
       /\ \A i \in 1..N :
             /\ SERVER_STATE'[i].host = SERVER_STATE[i].host
             /\ SERVER_STATE'[i].port = SERVER_STATE[i].port
             /\ SERVER_STATE'[i].name = SERVER_STATE[i].name
             /\ SERVER_STATE[i] = ServerEntry(i, SERVER_STATE[i].healthy)
       /\ SERVER_STATE' # SERVER_STATE => ProbeStep
       /\ (\E h \in Handlers : pc'[h] # pc[h]) => SERVER_STATE' = SERVER_STATE]_vars

C14_Witness ==
    \E h \in Handlers :
        /\ pc[h] = "except"
        /\ error_message[h] = SocketErrorMessage
        /\ backend_sock[h] = "open"
        /\ ~reachable[IndexOf(backend[h])]
        /\ Healthy(IndexOf(backend[h]))

\* A thread that is at a socket operation: a handler at its backend connect,
\* client read, backend write, relay or 503 write; the prober inside the for
\* loop of its sweep, whose body is the probe's connect to entry hc_index.
HandlerAtIO(h) == pc[h] \in {"connect", "recv", "forward", "relay", "except"}
ProberAtIO == hc_pc = "sweep"

\* C15: no thread that holds STATE_LOCK is at a socket connect, read or
\* write.
C15_LockNotHeldAcrossIO ==
    /\ \A h \in Handlers : STATE_LOCK = h => ~HandlerAtIO(h)
    /\ STATE_LOCK = HealthThread => ~ProberAtIO

\* C16: once a probe of a backend has finished, no probe socket is open.
C16_NoProbeSocketLeftOpen == probe_sock # "open"

\* C17: RR_INDEX is a position of the registry, 0 <= RR_INDEX < N with
\* N >= 1, in every reachable state, whatever the handlers and the prober are
\* doing.
C17_CursorInRange ==
    /\ N >= 1
    /\ RR_INDEX \in 0..(N - 1)

C17_Witness ==
    /\ RR_INDEX = N - 1
    /\ hc_pc = "sweep"
    /\ \E h, g \in Handlers :
          /\ h # g
          /\ pc[h] = "select"
          /\ pc[g] = "connect"

\* The handlers that take a step of their scan loop in this step.
ScanStepOf(h) == pc[h] = "scan" /\ (pc'[h] # "scan" \/ iters'[h] # iters[h])

\* C18: a step of the scan loop moves RR_INDEX one position forward modulo
\* N, whether the entry examined is healthy or not, so that after the k-th
\* entry of a call the cursor is (start + k) mod N; every other step (the
\* health sweep, the rest of the handler) leaves RR_INDEX unchanged.
C18_CursorAdvancesOnePerEntry ==
    [][IF \E h \in Handlers : ScanStepOf(h)
       THEN \A h \in Handlers :
               ScanStepOf(h) =>
                   /\ RR_INDEX' = (RR_INDEX + 1) % N
                   /\ RR_INDEX' = (start_index[h] + iters[h] + 1) % N
       ELSE RR_INDEX' = RR_INDEX]_vars

C18_Witness ==
    \E h \in Handlers :
        /\ pc[h] = "scan"
        /\ iters[h] = 1
        /\ ~Healthy(start_index[h] + 1)
        /\ RR_INDEX = (start_index[h] + 1) % N
        /\ \E g \in Handlers : pc[g] = "relay"

\* The threads inside "with STATE_LOCK": handlers in their scan, the prober
\* in its sweep.
Scanning == {h \in Handlers : pc[h] = "scan"}
Sweeping == hc_pc = "sweep"

\* At most one thread is in a scan or a sweep, that thread is the holder of
\* the lock and nobody else is, and the cursor is where the running scan left
\* it.
Exclusive ==
    /\ Cardinality(Scanning) + (IF Sweeping THEN 1 ELSE 0) <= 1
    /\ \A h \in Handlers : STATE_LOCK = h <=> h \in Scanning
    /\ STATE_LOCK = HealthThread <=> Sweeping
    /\ STATE_LOCK = Free <=> (Scanning = {} /\ ~Sweeping)
    /\ \A h \in Scanning : RR_INDEX = (start_index[h] + iters[h]) % N

\* C19: scans and sweeps exclude each other: at most one thread is in a scan
\* or a sweep at any time; while a scan runs no healthy flag is written and
\* the cursor is moved by that scan only; and a scan that ends, with an
\* address or with the exception, has released the lock.
C19_ScansAndSweepsExclusive ==
    [][/\ Exclusive
       /\ Exclusive'
       /\ \A h \in Scanning :
             /\ SERVER_STATE' = SERVER_STATE
             /\ ~ScanStepOf(h) => RR_INDEX' = RR_INDEX
             /\ pc'[h] # "scan" =>
                   /\ pc'[h] \in {"connect", "except"}
                   /\ STATE_LOCK' = Free]_vars

C19_Witness ==
    \E h, g \in Handlers :
        /\ pc[h] = "scan"
        /\ iters[h] = 1
        /\ STATE_LOCK = h
        /\ pc[g] = "select"
        /\ hc_pc = "sleep"
        /\ \E i \in 1..N : Healthy(i) # reachable[i]

\* C20: under fair scheduling of the prober and of the lock, a backend whose
\* reachability stops changing has, from some point on, a healthy flag equal
\* to its reachability for good, while handlers keep selecting; from then on
\* a selection returns it only if it is reachable.
C20_HealthFollowsReachability ==
    \A i \in 1..NumServers :
        /\ \A b \in BOOLEAN :
              <>[](reachable[i] = b) => <>[](SERVER_STATE[i].healthy = b)
        /\ <>[](~reachable[i]) =>
              <>[][\A h \in Handlers :
                      (pc[h] = "scan" /\ pc'[h] = "connect") =>
                          backend'[h] # AddressOf(i)]_vars

C20_Witness ==
    /\ ~reachable[1]
    /\ ~Healthy(1)
    /\ reachable[2]
    /\ Healthy(2)
    /\ hc_pc = "sleep"
    /\ alerts # <<>>
    /\ \E h \in Handlers : pc[h] = "connect" /\ backend[h] = AddressOf(2)

====
